---- MODULE Spec2Model ----
(***************************************************************************)
(* ditiear: content-addressed snapshots of a directory tree, the tree      *)
(* differ, the byte diff and the patch archive (src/src/hash.rs,           *)
(* common.rs, diff.rs, patch.rs).                                          *)
(*                                                                         *)
(* Strings and file contents are sequences of bytes (naturals below 256);  *)
(* a Rust String is the sequence of its UTF-8 bytes, all ASCII here.       *)
(***************************************************************************)
EXTENDS Integers, Sequences, FiniteSets, TLC

VARIABLES
    pc,         \* position of the scenario being run
    rec,        \* codec: the DiffBlob handed to Display
    line,       \* codec: the text Display produced / the text handed to FromStr
    parsed,     \* codec: what FromStr returned
    tree,       \* snapshot: the source directory (a set of entries)
    casRec,     \* snapshot: the CAS the recursive builder writes to
    recRes,     \* snapshot: results of the recursive builder's runs
    casIt,      \* snapshot: the CAS the iterative builder writes to
    itState,    \* snapshot: entries_stack, resolved and log of the iterative builder
    itRes,      \* snapshot: what the iterative builder returned
    bytesA,     \* replay: the old bytes
    bytesB,     \* replay: the new bytes
    rp,         \* replay: the state of replace_parts_file
    writer,     \* patch: the line format of the manifests in the CAS directories
    dOld,       \* patch: the old source directory
    dNew,       \* patch: the new source directory
    casSrc,     \* patch: the CAS holding both snapshots (from_dir)
    casDst,     \* patch: the CAS the patch is applied to (base_path)
    snap,       \* patch: the two root hashes and the manifests of the new snapshot
    df,         \* patch: the state of compare_blob_files
    diffOut,    \* patch: what compare_blob_files returned
    packed,     \* patch: what create_zip_patch returned and the archive it wrote
    ap          \* patch: the state of apply_patchs

codecVars == <<rec, line, parsed>>
snapVars == <<tree, casRec, recRes, casIt, itState, itRes>>
replayVars == <<bytesA, bytesB, rp>>
patchVars == <<writer, dOld, dNew, casSrc, casDst, snap, df, diffOut, packed, ap>>
vars == <<pc, codecVars, snapVars, replayVars, patchVars>>

\* what each scenario leaves alone
notCodec == <<snapVars, replayVars, patchVars>>
notSnap == <<codecVars, replayVars, patchVars>>
notReplay == <<codecVars, snapVars, patchVars>>
notPatch == <<codecVars, snapVars, replayVars>>

Nil == <<>>

\* the variables of a scenario that is not the one being run
CodecIdle == rec = Nil /\ line = Nil /\ parsed = Nil
SnapIdle ==
    /\ tree = Nil /\ casRec = Nil /\ recRes = Nil
    /\ casIt = Nil /\ itState = Nil /\ itRes = Nil
ReplayIdle == bytesA = Nil /\ bytesB = Nil /\ rp = Nil
PatchIdle ==
    /\ writer = Nil /\ dOld = Nil /\ dNew = Nil /\ casSrc = Nil /\ casDst = Nil
    /\ snap = Nil /\ df = Nil /\ diffOut = Nil /\ packed = Nil /\ ap = Nil

(***************************************************************************)
(* Bytes and strings                                                       *)
(***************************************************************************)
SP == 32
LF == 10
CR == 13
TAB == 9
PLUS == 43

Max(a, b) == IF a >= b THEN a ELSE b
Min(a, b) == IF a <= b THEN a ELSE b

\* the set { min S } for a non-empty finite set of integers
MinOf(S) == CHOOSE x \in S : \A y \in S : x <= y

\* the element of a one-element set.  Only({F(x) : x \in {e}}) is F(e) with e
\* evaluated before F is entered; the loops below use it to run the first half
\* of a range to its end before the second half starts.
Only(S) == CHOOSE x \in S : TRUE

\* s[from+1 .. to], the Rust slice &s[from..to]
Slice(s, from, to) == SubSeq(s, from + 1, to)

\* char::is_whitespace on ASCII: TAB, LF, VT, FF, CR, SP
IsWhitespace(c) == c \in {9, 10, 11, 12, 13, 32}

\* str::trim: strips leading AND trailing whitespace
Trim(s) ==
    LET keep == {i \in 1..Len(s) : ~IsWhitespace(s[i])}
    IN  IF keep = {} THEN <<>>
        ELSE SubSeq(s, MinOf(keep), CHOOSE x \in keep : \A y \in keep : y <= x)

\* Ord on str / [u8]: lexicographic by byte, a proper prefix is smaller
RECURSIVE StrLess(_, _)
StrLess(a, b) ==
    IF b = <<>> THEN FALSE
    ELSE IF a = <<>> THEN TRUE
    ELSE IF a[1] # b[1] THEN a[1] < b[1]
    ELSE StrLess(Tail(a), Tail(b))

\* str::lines: split at LF, a CR before the LF is dropped, no empty last line
RECURSIVE Lines(_)
Lines(s) ==
    IF s = <<>> THEN <<>>
    ELSE LET nl  == {i \in 1..Len(s) : s[i] = LF}
             cut == IF nl = {} THEN Len(s) + 1 ELSE MinOf(nl)
             raw == SubSeq(s, 1, cut - 1)
             l   == IF nl # {} /\ raw # <<>> /\ raw[Len(raw)] = CR
                    THEN SubSeq(raw, 1, Len(raw) - 1) ELSE raw
         IN  <<l>> \o Lines(SubSeq(s, cut + 1, Len(s)))

\* one lowercase hex digit
HexDigit(d) == IF d < 10 THEN 48 + d ELSE 87 + d

\* format!("{:x}", n): lowercase hex, no leading zeros, no padding
RECURSIVE HexStr(_)
HexStr(n) ==
    IF n < 16 THEN <<HexDigit(n)>>
    ELSE HexStr(n \div 16) \o <<HexDigit(n % 16)>>

\* format!("{:02x}", n): padded with zeros to a MINIMUM width of two
Hex02(n) == IF n < 16 THEN <<48>> \o HexStr(n) ELSE HexStr(n)

\* the value of one hex digit (either case), or -1
HexVal(c) ==
    IF c >= 48 /\ c <= 57 THEN c - 48
    ELSE IF c >= 97 /\ c <= 102 THEN c - 87
    ELSE IF c >= 65 /\ c <= 70 THEN c - 55
    ELSE -1

\* usize::from_str_radix(two bytes, 16): the value, or -1 for Err.
\* A leading '+' is accepted by the standard library.
FromStrRadix16(t) ==
    LET digits == IF t[1] = PLUS THEN Tail(t) ELSE t
    IN  IF \E i \in 1..Len(digits) : HexVal(digits[i]) < 0 THEN -1
        ELSE IF Len(digits) = 1 THEN HexVal(digits[1])
        ELSE 16 * HexVal(digits[1]) + HexVal(digits[2])

(***************************************************************************)
(* common.rs: DiffBlob and its text codec                                  *)
(***************************************************************************)
KindDirectory == <<100, 105, 114, 101, 99, 116, 111, 114, 121>>   \* "directory"
KindFile == <<102, 105, 108, 101>>                                \* "file"

\* impl Display for DiffBlobType
KindWord(t) == IF t = "Directory" THEN KindDirectory ELSE KindFile

DiffBlob(n, h, t) == [name |-> n, hash |-> h, blob_type |-> t]

\* impl Display for DiffBlob (common.rs): "{} {} {} {:02x}{:02x}{:02x}\n"
Display(b) ==
    b.name \o <<SP>> \o b.hash \o <<SP>> \o KindWord(b.blob_type) \o <<SP>>
        \o Hex02(Len(b.name)) \o Hex02(Len(b.hash))
        \o Hex02(Len(KindWord(b.blob_type))) \o <<LF>>

ParseErr(e) == [ok |-> FALSE, err |-> e]

\* impl FromStr for DiffBlob.  "Panic" is a slice or split_at out of range.
FromStr(input) ==
    LET s0  == Trim(input)
        len == Len(s0)
    IN
    IF len < 6 THEN ParseErr("InvalidLength")
    ELSE
    LET s        == Slice(s0, 0, len - 6)
        len_part == Slice(s0, len - 6, len)
        name_length == FromStrRadix16(Slice(len_part, 0, 2))
        hash_length == FromStrRadix16(Slice(len_part, 2, 4))
        type_length == FromStrRadix16(Slice(len_part, 4, 6))
    IN
    IF name_length < 0 THEN ParseErr("InvalidNameLengthInfo")
    ELSE IF hash_length < 0 THEN ParseErr("InvalidHashLengthInfo")
    ELSE IF type_length < 0 THEN ParseErr("InvalidTypeLengthInfo")
    ELSE IF len < name_length + hash_length + type_length + 3
         THEN ParseErr("InvalidTotalLength")
    ELSE IF name_length > Len(s) THEN ParseErr("Panic")
    ELSE
    LET name  == Slice(s, 0, name_length)
        rest1 == Slice(s, name_length, Len(s))
    IN
    IF Len(rest1) < 1 \/ hash_length > Len(rest1) - 1 THEN ParseErr("Panic")
    ELSE
    LET hash  == Slice(rest1, 1, 1 + hash_length)
        rest2 == Slice(rest1, 1 + hash_length, Len(rest1))
    IN
    IF Len(rest2) < 1 \/ type_length > Len(rest2) - 1 THEN ParseErr("Panic")
    ELSE
    LET blob_type_str == Slice(rest2, 1, 1 + type_length)
    IN
    IF blob_type_str = KindDirectory
        THEN [ok |-> TRUE, blob |-> DiffBlob(name, hash, "Directory")]
    ELSE IF blob_type_str = KindFile
        THEN [ok |-> TRUE, blob |-> DiffBlob(name, hash, "File")]
    ELSE ParseErr("InvalidType")

(***************************************************************************)
(* hash.rs: hashing, sharding, the two snapshot builders                   *)
(***************************************************************************)
\* XxHash64 is an external primitive; its 64-bit state is modelled by a
\* DigestBits-wide multiplicative digest with the same interface (a seed,
\* write(bytes) folding the bytes in order, finish).
DigestBits == 16
DigestModulus == 2 ^ DigestBits
\* XxHash64::default()
XxDefault == 40503 % DigestModulus

\* Hasher::write: the bytes are folded in, in order
RECURSIVE XxWriteRange(_, _, _, _)
XxWriteRange(h, bytes, lo, hi) ==
    IF lo > hi THEN h
    ELSE IF lo = hi THEN (h * 31 + bytes[lo] + 1) % DigestModulus
    ELSE Only({XxWriteRange(mid, bytes, (lo + hi) \div 2 + 1, hi) :
                  mid \in {XxWriteRange(h, bytes, lo, (lo + hi) \div 2)}})

XxWrite(h, bytes) == XxWriteRange(h, bytes, 1, Len(bytes))

\* Hasher::finish
XxFinish(h) == (h * 25173 + 13849) % DigestModulus

\* calculate_file_hash: the file is read in chunks, each written to the hasher;
\* the digest is rendered with "{:x}" (no zero padding)
calculate_file_hash(data) == HexStr(XxFinish(XxWrite(XxDefault, data)))

\* split_dir_and_name: (hash[0..1], hash[1..])
split_dir_and_name(hash) == <<Slice(hash, 0, 1), Slice(hash, 1, Len(hash))>>

\* A CAS directory is a function from object path to file content.  The path
\* <base>/dir/name is kept as the string dir \o name, its shard directory is dir.
EmptyCas == <<>>
path_from_hash(hash) == split_dir_and_name(hash)[1] \o split_dir_and_name(hash)[2]
ShardOf(path) == Slice(path, 0, 1)
Exists(cas, path) == path \in DOMAIN cas
\* fs::copy / File::create + write_all: the file at path now holds data
WriteFile(cas, path, data) == [k \in DOMAIN cas \cup {path} |-> IF k = path THEN data ELSE cas[k]]
\* if !p.exists() { write }
PutIfAbsent(cas, hash, data) ==
    IF Exists(cas, path_from_hash(hash)) THEN cas
    ELSE WriteFile(cas, path_from_hash(hash), data)

\* impl Display for DiffBlob (hash.rs): "{} {} {}\n", no length trailer
DisplayHashRs(b) ==
    b.name \o <<SP>> \o b.hash \o <<SP>> \o KindWord(b.blob_type) \o <<LF>>

\* The line a manifest writer emits for one record.  "hash_rs" is the writer
\* of the snapshot builders; "common_rs" is the codec of common.rs, the format
\* compare_blob_files reads.
LineOf(fmt, b) == IF fmt = "common_rs" THEN Display(b) ELSE DisplayHashRs(b)

RECURSIVE ManifestText(_, _)
ManifestText(fmt, blobs) ==
    IF blobs = <<>> THEN <<>>
    ELSE LineOf(fmt, Head(blobs)) \o ManifestText(fmt, Tail(blobs))

\* Vec::sort_by(|a, b| a.hash.cmp(&b.hash)): a STABLE sort on the hash string
RECURSIVE InsertByHash(_, _)
InsertByHash(sorted, b) ==
    IF sorted = <<>> THEN <<b>>
    ELSE IF StrLess(b.hash, Head(sorted).hash) THEN <<b>> \o sorted
    ELSE <<Head(sorted)>> \o InsertByHash(Tail(sorted), b)

RECURSIVE SortByHashFrom(_, _)
SortByHashFrom(sorted, blobs) ==
    IF blobs = <<>> THEN sorted
    ELSE SortByHashFrom(InsertByHash(sorted, Head(blobs)), Tail(blobs))

SortByHash(blobs) == SortByHashFrom(<<>>, blobs)

\* ".DS_Store"
DSStore == <<46, 68, 83, 95, 83, 116, 111, 114, 101>>

\* fs::read_dir yields the entries of a directory in an unspecified order
ReadDir(dir) ==
    {o \in [1..Cardinality(dir) -> dir] : \A i, j \in 1..Cardinality(dir) : o[i] = o[j] => i = j}

\* Steps 3-5 of create_directory_blob_file_rec: sort, hash, write if absent.
\* log records every manifest handed to the hasher: its hash and its records.
WriteManifest(fmt, blobs, cas, log) ==
    LET sorted == SortByHash(blobs)
        text   == ManifestText(fmt, sorted)
        hash   == HexStr(XxFinish(XxWrite(XxDefault, text)))
    IN  [hash |-> hash,
         cas  |-> PutIfAbsent(cas, hash, text),
         log  |-> log \cup {[hash |-> hash, blobs |-> sorted]}]

\* The recursive builder, for every enumeration order of every directory:
\* the set of outcomes [hash, cas, log].
RECURSIVE RecBuilds(_, _, _, _)
RECURSIVE RecWalk(_, _, _, _, _)
RecWalk(fmt, es, blobs, cas, log) ==
    IF es = <<>> THEN {WriteManifest(fmt, blobs, cas, log)}
    ELSE
    LET e == Head(es) IN
    IF e.name = DSStore THEN RecWalk(fmt, Tail(es), blobs, cas, log)
    ELSE IF e.kind = "dir" THEN
        UNION {RecWalk(fmt, Tail(es), Append(blobs, DiffBlob(e.name, r.hash, "Directory")),
                       r.cas, r.log) : r \in RecBuilds(fmt, e.sub, cas, log)}
    ELSE
        LET hash == calculate_file_hash(e.data)
        IN  RecWalk(fmt, Tail(es), Append(blobs, DiffBlob(e.name, hash, "File")),
                    PutIfAbsent(cas, hash, e.data), log)

RecBuilds(fmt, dir, cas, log) ==
    UNION {RecWalk(fmt, order, <<>>, cas, log) : order \in ReadDir(dir)}

\* create_directory_blob_file_rec(to_path, from_path)
create_directory_blob_file_rec(dir, cas) == RecBuilds("hash_rs", dir, cas, {})


\* The basename of from_path; only the root record's hash is ever used.
RootName == <<114>>

\* The directory at a path (a sequence of names) below the source root
RECURSIVE DirAt(_, _)
DirAt(dir, path) ==
    IF path = <<>> THEN dir
    ELSE DirAt((CHOOSE e \in dir : e.name = Head(path) /\ e.kind = "dir").sub, Tail(path))

\* The body of `for entry in fs::read_dir(&parent_path)` of
\* create_directory_blob_file, over the entries in enumeration order.
\* st: entries, tem (tem_entries_stack), need_update, all_resolved and the
\* builder's entries_stack (top at the end), resolved, cas.
RECURSIVE IterLoop(_, _, _)
IterLoop(parent_path, es, st) ==
    IF es = <<>> THEN st
    ELSE
    LET e    == Head(es)
        path == Append(parent_path, e.name)
    IN
    IF e.name = DSStore \/ path \in DOMAIN st.resolved
    THEN IterLoop(parent_path, Tail(es), st)
    ELSE
    LET hash == calculate_file_hash(e.data)
        blob == DiffBlob(e.name, hash, "File")
        st1  == IF e.kind = "dir"
                THEN [st EXCEPT !.tem = Append(@, [path |-> path, entries |-> <<>>]),
                                !.all_resolved = FALSE]
                ELSE [st EXCEPT !.cas = PutIfAbsent(@, hash, e.data),
                                !.resolved = (path :> blob) @@ @,
                                !.entries = Append(@, blob),
                                !.need_update = TRUE]
        st2  == IF st1.tem # <<>> \/ st1.need_update
                THEN [st1 EXCEPT
                        !.stack = Append(@, [path |-> parent_path, entries |-> st1.entries])
                                      \o st1.tem,
                        !.tem = <<>>]
                ELSE st1
    IN  IterLoop(parent_path, Tail(es), st2)

\* One iteration of `while let Some((parent_path, entries)) = entries_stack.pop()`
\* for the enumeration order `order` of parent_path: the new [stack, resolved, cas, log].
IterPop(src, it, cas, order) ==
    LET top == it.stack[Len(it.stack)]
        st  == IterLoop(top.path, order,
                        [entries |-> top.entries, tem |-> <<>>, need_update |-> FALSE,
                         all_resolved |-> TRUE,
                         stack |-> SubSeq(it.stack, 1, Len(it.stack) - 1),
                         resolved |-> it.resolved, cas |-> cas])
        w   == WriteManifest("hash_rs", st.entries, st.cas, it.log)
        nm  == IF top.path = <<>> THEN RootName ELSE top.path[Len(top.path)]
    IN  IF st.all_resolved /\ st.entries # <<>>
        THEN [stack |-> st.stack,
              resolved |-> (top.path :> DiffBlob(nm, w.hash, "Directory")) @@ st.resolved,
              cas |-> w.cas, log |-> w.log]
        ELSE [stack |-> st.stack, resolved |-> st.resolved, cas |-> st.cas, log |-> it.log]

(***************************************************************************)
(* diff.rs: the tree differ                                                *)
(***************************************************************************)
TypeDirectory == <<68, 105, 114, 101, 99, 116, 111, 114, 121>>   \* "Directory"
TypeFile == <<70, 105, 108, 101>>                                \* "File"

\* impl Display for DiffFileType
TypeWord(t) == IF t = "Directory" THEN TypeDirectory ELSE TypeFile

\* DiffCollectionType::{Add, Delete, Modify}
AddItem(t, v) == [op |-> "Add", type |-> t, value |-> v, old |-> <<>>, new |-> <<>>]
DeleteItem(t, v) == [op |-> "Delete", type |-> t, value |-> v, old |-> <<>>, new |-> <<>>]
ModifyItem(t, o, n) == [op |-> "Modify", type |-> t, value |-> <<>>, old |-> o, new |-> n]

\* movement_unique_hash of an Add or a Delete: format!("{}{}", value, type)
movement_unique_hash(x) == x.value \o TypeWord(x.type)

\* DiffBlob::unique_name: format!("{}{}", name, blob_type)
unique_name(b) == b.name \o KindWord(b.blob_type)

DiffErr(e) == [ok |-> FALSE, err |-> e]

\* FromStr on every line of a manifest
ParseEach(lines) == [i \in 1..Len(lines) |-> FromStr(lines[i])]

\* `DiffBlob::from_str(&l?)?` line by line: the blobs, or the first error
CollectParsed(ps) ==
    LET bad == {i \in 1..Len(ps) : ~ps[i].ok}
    IN  IF bad # {}
        THEN DiffErr(IF ps[MinOf(bad)].err = "Panic" THEN "Panic" ELSE "Parse")
        ELSE [ok |-> TRUE, blobs |-> [i \in 1..Len(ps) |-> ps[i].blob]]

ParseLines(text) == CollectParsed(ParseEach(Lines(text)))

\* the blobs inserted into a HashMap under their unique_name, in line order
\* (a later line replaces an earlier one with the same key)
MapOf(p) ==
    IF ~p.ok THEN p
    ELSE LET keys == {unique_name(p.blobs[i]) : i \in 1..Len(p.blobs)}
             last(k) == CHOOSE i \in 1..Len(p.blobs) :
                            /\ unique_name(p.blobs[i]) = k
                            /\ \A j \in 1..Len(p.blobs) :
                                   unique_name(p.blobs[j]) = k => j <= i
         IN  [ok |-> TRUE, map |-> [k \in keys |-> p.blobs[last(k)]]]

\* compare_blob_files step 1: open the manifest and parse every line
LoadManifest(cas, hash) ==
    IF ~Exists(cas, path_from_hash(hash)) THEN DiffErr("Io")
    ELSE MapOf(ParseLines(cas[path_from_hash(hash)]))

\* HashMap::values(): the values in an unspecified order
Values(map) ==
    {o \in [1..Cardinality(DOMAIN map) -> DOMAIN map] :
        \A i, j \in 1..Cardinality(DOMAIN map) : o[i] = o[j] => i = j}

\* walk_dir: every manifest and file below a directory hash as Add (is_add) or
\* Delete items, and the set of their movement_unique_hash keys.
\* st: stack (top at the end), result, set, ok, err.
RECURSIVE WalkLines(_, _, _)
WalkLines(blobs, is_add, st) ==
    IF blobs = <<>> THEN st
    ELSE
    LET blob == Head(blobs)
        item == IF is_add THEN AddItem("File", blob.hash) ELSE DeleteItem("File", blob.hash)
    IN  IF blob.blob_type = "File"
        THEN WalkLines(Tail(blobs), is_add,
                       [st EXCEPT !.set = @ \cup {movement_unique_hash(item)},
                                  !.result = Append(@, item)])
        ELSE WalkLines(Tail(blobs), is_add, [st EXCEPT !.stack = Append(@, blob.hash)])

RECURSIVE WalkStack(_, _, _)

\* the manifest popped off the stack, parsed (p): its own item, then its lines
WalkManifest(cas, is_add, st, item, p) ==
    IF ~p.ok THEN [st EXCEPT !.ok = FALSE, !.err = p.err]
    ELSE WalkStack(cas, is_add,
            WalkLines(p.blobs, is_add,
                [st EXCEPT !.stack = SubSeq(@, 1, Len(@) - 1),
                           !.set = @ \cup {movement_unique_hash(item)},
                           !.result = Append(@, item)]))

WalkPop(cas, is_add, st, hash) ==
    IF ~Exists(cas, path_from_hash(hash)) THEN [st EXCEPT !.ok = FALSE, !.err = "Io"]
    ELSE WalkManifest(cas, is_add, st,
                      IF is_add THEN AddItem("Directory", hash)
                      ELSE DeleteItem("Directory", hash),
                      ParseLines(cas[path_from_hash(hash)]))

WalkStack(cas, is_add, st) ==
    IF st.stack = <<>> THEN st ELSE WalkPop(cas, is_add, st, st.stack[Len(st.stack)])

walk_dir(cas, hash, is_add) ==
    WalkStack(cas, is_add,
              [stack |-> <<hash>>, result |-> <<>>, set |-> {}, ok |-> TRUE, err |-> ""])

\* The state of compare_blob_files: queue (front first), result, add_set,
\* delete_set, and ok / err once an error is being returned.
DiffStart(old_hash, new_hash) ==
    [queue |-> <<[old |-> old_hash, new |-> new_hash]>>, result |-> <<>>,
     add_set |-> {}, delete_set |-> {}, ok |-> TRUE, err |-> ""]

\* step 2: `for b in old_blobs.values()`, the values in the order given
RECURSIVE OldLoop(_, _, _, _, _)
OldLoop(cas, old_blobs, new_blobs, order, st) ==
    IF order = <<>> \/ ~st.ok THEN st
    ELSE
    LET b    == old_blobs[Head(order)]
        rest == Tail(order)
    IN
    IF unique_name(b) \in DOMAIN new_blobs
    THEN LET new_b == new_blobs[unique_name(b)]
         IN  IF b.hash = new_b.hash THEN OldLoop(cas, old_blobs, new_blobs, rest, st)
             ELSE IF b.blob_type = "File"
             THEN OldLoop(cas, old_blobs, new_blobs, rest,
                     [st EXCEPT !.result = Append(@, ModifyItem("File", b.hash, new_b.hash))])
             ELSE OldLoop(cas, old_blobs, new_blobs, rest,
                     [st EXCEPT !.queue = <<[old |-> b.hash, new |-> new_b.hash]>> \o @])
    ELSE IF b.blob_type = "File"
    THEN LET diff_item == DeleteItem("File", b.hash)
         IN  OldLoop(cas, old_blobs, new_blobs, rest,
                 [st EXCEPT !.delete_set = @ \cup {movement_unique_hash(diff_item)},
                            !.result = Append(@, diff_item)])
    ELSE LET w == walk_dir(cas, b.hash, FALSE)
         IN  IF ~w.ok THEN [st EXCEPT !.ok = FALSE, !.err = w.err]
             ELSE OldLoop(cas, old_blobs, new_blobs, rest,
                     [st EXCEPT !.delete_set = @ \cup w.set, !.result = @ \o w.result])

\* `for b in new_blobs.values()`: what is in new and not in old is added
RECURSIVE NewLoop(_, _, _, _, _)
NewLoop(cas, old_blobs, new_blobs, order, st) ==
    IF order = <<>> \/ ~st.ok THEN st
    ELSE
    LET b    == new_blobs[Head(order)]
        rest == Tail(order)
    IN
    IF unique_name(b) \in DOMAIN old_blobs THEN NewLoop(cas, old_blobs, new_blobs, rest, st)
    ELSE IF b.blob_type = "File"
    THEN LET diff_item == AddItem("File", b.hash)
         IN  NewLoop(cas, old_blobs, new_blobs, rest,
                 [st EXCEPT !.add_set = @ \cup {movement_unique_hash(diff_item)},
                            !.result = Append(@, diff_item)])
    ELSE LET w == walk_dir(cas, b.hash, TRUE)
         IN  IF ~w.ok THEN [st EXCEPT !.ok = FALSE, !.err = w.err]
             ELSE NewLoop(cas, old_blobs, new_blobs, rest,
                     [st EXCEPT !.add_set = @ \cup w.set, !.result = @ \o w.result])

\* the loop body as it would be if the pair's Modify record were pushed after
\* the two loops over its entries instead of before them
ComparePoppedLate(cas, st0, pair, lo, ln, old_order, new_order) ==
    IF ~lo.ok THEN [st0 EXCEPT !.ok = FALSE, !.err = lo.err]
    ELSE IF ~ln.ok THEN [st0 EXCEPT !.ok = FALSE, !.err = ln.err]
    ELSE IF pair.old = pair.new THEN st0
    ELSE [NewLoop(cas, lo.map, ln.map, new_order,
                  OldLoop(cas, lo.map, ln.map, old_order, st0))
              EXCEPT !.result = Append(@, ModifyItem("Directory", pair.old, pair.new))]

\* The body of `while let Some((old, new)) = queue.pop_back()` for the pair
\* popped, its two manifests loaded (lo, ln), the two HashMaps iterated in
\* the orders given (sequences of keys).
ComparePopped(cas, st0, pair, lo, ln, old_order, new_order) ==
    IF ~lo.ok THEN [st0 EXCEPT !.ok = FALSE, !.err = lo.err]
    ELSE IF ~ln.ok THEN [st0 EXCEPT !.ok = FALSE, !.err = ln.err]
    ELSE IF pair.old = pair.new THEN st0
    ELSE NewLoop(cas, lo.map, ln.map, new_order,
             OldLoop(cas, lo.map, ln.map, old_order,
                 [st0 EXCEPT !.result =
                      Append(@, ModifyItem("Directory", pair.old, pair.new))]))

QueueBack(st) == st.queue[Len(st.queue)]

ComparePair(cas, st, old_order, new_order) ==
    ComparePopped(cas, [st EXCEPT !.queue = SubSeq(@, 1, Len(@) - 1)], QueueBack(st),
                  LoadManifest(cas, QueueBack(st).old),
                  LoadManifest(cas, QueueBack(st).new), old_order, new_order)

\* the orders the two maps of the pair at the back of the queue can be iterated in
OrdersOf(pair, lo, ln) ==
    IF lo.ok /\ ln.ok /\ pair.old # pair.new
    THEN Values(lo.map) \X Values(ln.map)
    ELSE {<<<<>>, <<>>>>}

PairOrders(cas, st) ==
    OrdersOf(QueueBack(st), LoadManifest(cas, QueueBack(st).old),
             LoadManifest(cas, QueueBack(st).new))

\* step 3: drop every Add and Delete whose key is both added and deleted
FilterInvalid(st) ==
    LET invalid_set == st.add_set \cap st.delete_set
    IN  SelectSeq(st.result,
                  LAMBDA x : x.op = "Modify" \/ movement_unique_hash(x) \notin invalid_set)


(***************************************************************************)
(* patch.rs: the byte diff                                                 *)
(***************************************************************************)
\* similar::capture_diff_slices(Algorithm::Myers, old, new) is an external
\* primitive.  It is modelled by an LCS edit script: the common prefix and
\* suffix are Equal, the middle is walked along a longest common subsequence,
\* and each maximal run of deletions and insertions is one Delete, Insert or
\* Replace op carrying its offsets into old and new.

\* row i of the LCS table of a and b, columns 0..Len(b), filled from the
\* right: entry j = length of an LCS of a[i+1..] and b[j+1..]; below is row
\* i+1.  Steps lo..hi, step k filling column Len(b) - k.
RECURSIVE LcsRowRange(_, _, _, _, _, _, _)
LcsRowRange(a, b, i, below, row, lo, hi) ==
    IF lo > hi THEN row
    ELSE IF lo = hi
    THEN <<IF a[i + 1] = b[Len(b) - lo + 1] THEN 1 + below[Len(b) - lo + 2]
           ELSE Max(below[Len(b) - lo + 1], row[1])>> \o row
    ELSE Only({LcsRowRange(a, b, i, below, mid, (lo + hi) \div 2 + 1, hi) :
                  mid \in {LcsRowRange(a, b, i, below, row, lo, (lo + hi) \div 2)}})

LcsRow(a, b, i, below) == LcsRowRange(a, b, i, below, <<0>>, 1, Len(b))

\* the LCS table, rows 0..Len(a), filled from the bottom: step k fills row
\* Len(a) - k
RECURSIVE LcsTableRange(_, _, _, _, _)
LcsTableRange(a, b, t, lo, hi) ==
    IF lo > hi THEN t
    ELSE IF lo = hi THEN <<LcsRow(a, b, Len(a) - lo, t[1])>> \o t
    ELSE Only({LcsTableRange(a, b, mid, (lo + hi) \div 2 + 1, hi) :
                  mid \in {LcsTableRange(a, b, t, lo, (lo + hi) \div 2)}})

LcsTable(a, b) == LcsTableRange(a, b, <<[j \in 1..(Len(b) + 1) |-> 0]>>, 1, Len(a))

\* one step along the edit path from (i, j): "E" keep, "D" delete old[i],
\* "I" insert new[j]; nothing at the end of both
EditStep(a, b, T, st) ==
    IF st.i = Len(a) /\ st.j = Len(b) THEN st
    ELSE IF st.i < Len(a) /\ st.j < Len(b) /\ a[st.i + 1] = b[st.j + 1]
        THEN [i |-> st.i + 1, j |-> st.j + 1, path |-> Append(st.path, "E")]
    ELSE IF st.j = Len(b) \/ (st.i < Len(a) /\ T[st.i + 2][st.j + 1] >= T[st.i + 1][st.j + 2])
        THEN [i |-> st.i + 1, j |-> st.j, path |-> Append(st.path, "D")]
    ELSE [i |-> st.i, j |-> st.j + 1, path |-> Append(st.path, "I")]

RECURSIVE EditSteps(_, _, _, _, _, _)
EditSteps(a, b, T, st, lo, hi) ==
    IF lo > hi THEN st
    ELSE IF lo = hi THEN EditStep(a, b, T, st)
    ELSE Only({EditSteps(a, b, T, mid, (lo + hi) \div 2 + 1, hi) :
                  mid \in {EditSteps(a, b, T, st, lo, (lo + hi) \div 2)}})

\* the edit path from (0, 0) to the end of both: at most Len(a) + Len(b) steps
EditPath(a, b, T) ==
    EditSteps(a, b, T, [i |-> 0, j |-> 0, path |-> <<>>], 1, Len(a) + Len(b)).path

\* the op of one run: old_len bytes of old at old_index become new_len bytes of new
DiffOp(old_index, old_len, new_index, new_len) ==
    [tag |-> IF old_len > 0 /\ new_len > 0 THEN "Replace"
             ELSE IF old_len > 0 THEN "Delete" ELSE "Insert",
     old_index |-> old_index, old_len |-> old_len,
     new_index |-> new_index, new_len |-> new_len]

\* the op that closes the open run of changes, if there is one; run is
\* <<old_index, new_index>> of the open run, or Nil
CloseRun(st) ==
    IF st.run = Nil THEN <<>>
    ELSE <<DiffOp(st.run[1], st.i - st.run[1], st.run[2], st.j - st.run[2])>>

\* one letter of the path taken at offsets (i, j)
OpsStep(st, c) ==
    IF c = "E"
    THEN [i |-> st.i + 1, j |-> st.j + 1, run |-> Nil, ops |-> st.ops \o CloseRun(st)]
    ELSE [i |-> IF c = "D" THEN st.i + 1 ELSE st.i,
          j |-> IF c = "D" THEN st.j ELSE st.j + 1,
          run |-> IF st.run = Nil THEN <<st.i, st.j>> ELSE st.run,
          ops |-> st.ops]

OpsEnd(st) == st.ops \o CloseRun(st)

RECURSIVE OpsSteps(_, _, _, _)
OpsSteps(path, st, lo, hi) ==
    IF lo > hi THEN st
    ELSE IF lo = hi THEN OpsStep(st, path[lo])
    ELSE Only({OpsSteps(path, mid, (lo + hi) \div 2 + 1, hi) :
                  mid \in {OpsSteps(path, st, lo, (lo + hi) \div 2)}})

\* the ops of a path that starts at offsets (i, j)
OpsOfPath(path, i, j) ==
    OpsEnd(OpsSteps(path, [i |-> i, j |-> j, run |-> Nil, ops |-> <<>>], 1, Len(path)))

capture_diff_slices(old, new) ==
    LET m    == Len(old)
        n    == Len(new)
        dif  == {i \in 1..Min(m, n) : old[i] # new[i]}
        pre  == IF dif = {} THEN Min(m, n) ELSE MinOf(dif) - 1
        sdif == {k \in 1..(Min(m, n) - pre) : old[m + 1 - k] # new[n + 1 - k]}
        suf  == IF sdif = {} THEN Min(m, n) - pre ELSE MinOf(sdif) - 1
        a    == SubSeq(old, pre + 1, m - suf)
        b    == SubSeq(new, pre + 1, n - suf)
    IN  OpsOfPath(EditPath(a, b, LcsTable(a, b)), pre, pre)

\* calculate_binary_diff: the ops other than Equal, as BytesPatch values
calculate_binary_diff(old, new) ==
    LET ops == capture_diff_slices(old, new)
        patch(op) ==
            [tag |-> IF op.tag = "Insert" THEN "Add" ELSE op.tag,
             old_index |-> op.old_index,
             new_index |-> op.new_index,
             old_value |-> Slice(old, op.old_index, op.old_index + op.old_len),
             new_value |-> Slice(new, op.new_index, op.new_index + op.new_len)]
    IN  [k \in 1..Len(ops) |-> patch(ops[k])]

(***************************************************************************)
(* patch.rs: the streaming replay of a byte patch                          *)
(***************************************************************************)
\* the length of copy_with_buffer's buffer: vec![0; 1024.min(bytes)]
BufSize == 1024

\* apply_patchs, Replace arm: BytesPatch -> Replacement
Replacement(item) ==
    [start   |-> item.old_index,
     length  |-> IF item.tag = "Add" THEN 0 ELSE Len(item.old_value),
     content |-> IF item.tag = "Delete" THEN <<>> ELSE item.new_value]

\* replacements.sort_by(|a, b| a.start.cmp(&b.start)): a stable sort
RECURSIVE InsertByStart(_, _)
InsertByStart(sorted, r) ==
    IF sorted = <<>> THEN <<r>>
    ELSE IF r.start < Head(sorted).start THEN <<r>> \o sorted
    ELSE <<Head(sorted)>> \o InsertByStart(Tail(sorted), r)

RECURSIVE SortByStartFrom(_, _)
SortByStartFrom(sorted, rs) ==
    IF rs = <<>> THEN sorted
    ELSE SortByStartFrom(InsertByStart(sorted, Head(rs)), Tail(rs))

Replacements(patch) ==
    SortByStartFrom(<<>>, [k \in 1..Len(patch) |-> Replacement(patch[k])])

\* The state of replace_parts_file: the original's bytes, the reader's offset
\* pos, the bytes written to dest so far, the replacement being worked on (k),
\* current_pos, and inside copy_with_buffer the bytes still to copy and the
\* buffer length.  phase: "copy" (in copy_with_buffer), "tail" (before
\* io::copy), "done", "panic" (start - current_pos below zero).
EnterCopy(r, k) ==
    IF k > Len(r.replacements) THEN [r EXCEPT !.k = k, !.phase = "tail"]
    ELSE IF r.replacements[k].start < r.current_pos THEN [r EXCEPT !.k = k, !.phase = "panic"]
    ELSE LET bytes_to_copy == r.replacements[k].start - r.current_pos
         IN  [r EXCEPT !.k = k, !.phase = "copy", !.bytes = bytes_to_copy,
                       !.buf = Min(BufSize, bytes_to_copy)]

ReplayStart(original, replacements) ==
    EnterCopy([original |-> original, replacements |-> replacements, k |-> 1,
               phase |-> "copy", pos |-> 0, current_pos |-> 0,
               bytes |-> 0, buf |-> 0, out |-> <<>>], 1)

\* Read::read on the buffered file reader: as many bytes as the buffer holds,
\* or what is left of the file (nothing at or past its end)
ReadLen(r) == Min(r.buf, Max(0, Len(r.original) - r.pos))

\* one iteration of `while bytes > 0` in copy_with_buffer
copy_with_buffer_step(r) ==
    LET len == ReadLen(r)
    IN  [r EXCEPT !.out = @ \o SubSeq(r.original, r.pos + 1, r.pos + len),
                  !.pos = @ + len,
                  !.bytes = Max(0, @ - len)]

\* after copy_with_buffer returned: write the content, seek over the replaced
\* bytes, go on to the next replacement
AfterCopy(r) ==
    LET rep == r.replacements[r.k]
    IN  EnterCopy([r EXCEPT !.out = @ \o rep.content,
                            !.pos = @ + rep.length,
                            !.current_pos = rep.start + rep.length], r.k + 1)

\* io::copy(&mut reader, &mut writer); writer.flush()
CopyTail(r) ==
    [r EXCEPT !.out = @ \o SubSeq(r.original, r.pos + 1, Len(r.original)),
              !.pos = Max(@, Len(r.original)),
              !.phase = "done"]

\* copy_with_buffer reads at the end of the file with bytes still to copy:
\* read returns 0 and the loop never ends
Hangs(r) == r.phase = "copy" /\ r.bytes > 0 /\ ReadLen(r) = 0

ReplayStep(r) ==
    IF r.phase = "copy" /\ r.bytes > 0 THEN copy_with_buffer_step(r)
    ELSE IF r.phase = "copy" THEN AfterCopy(r)
    ELSE IF r.phase = "tail" THEN CopyTail(r)
    ELSE r

\* replace_parts_file run to its end: the final state ("done", "panic", or
\* the state it hangs in)
RECURSIVE replace_parts_file(_)
replace_parts_file(r) ==
    IF r.phase \in {"done", "panic"} \/ Hangs(r) THEN r
    ELSE replace_parts_file(ReplayStep(r))


(***************************************************************************)
(* patch.rs: the patch list, its encoding, the archive, unpack and apply   *)
(***************************************************************************)
\* enum BlobPatch { Add{new_file}, Delete{old_file}, Replace{old_file, new_file, patch} }
BlobAdd(new_file) == [tag |-> "Add", old_file |-> <<>>, new_file |-> new_file, patch |-> <<>>]
BlobDelete(old_file) == [tag |-> "Delete", old_file |-> old_file, new_file |-> <<>>, patch |-> <<>>]
BlobReplace(old_file, new_file, patch) ==
    [tag |-> "Replace", old_file |-> old_file, new_file |-> new_file, patch |-> patch]

\* bytes_from: the content of the object, or an I/O error
bytes_from(cas, hash) ==
    IF Exists(cas, path_from_hash(hash))
    THEN [ok |-> TRUE, bytes |-> cas[path_from_hash(hash)]]
    ELSE [ok |-> FALSE, err |-> "Io"]

\* BlobPatch::from: one BlobPatch per diff item, in order; a Modify of either
\* type becomes a Replace with the byte diff of the two objects
RECURSIVE BlobPatchFrom(_, _, _)
BlobPatchFrom(diffs, cas, result) ==
    IF diffs = <<>> THEN [ok |-> TRUE, patchs |-> result]
    ELSE
    LET diff == Head(diffs)
    IN  IF diff.op = "Add"
        THEN BlobPatchFrom(Tail(diffs), cas, Append(result, BlobAdd(diff.value)))
        ELSE IF diff.op = "Delete"
        THEN BlobPatchFrom(Tail(diffs), cas, Append(result, BlobDelete(diff.value)))
        ELSE
        LET old_buffer == bytes_from(cas, diff.old)
            new_buffer == bytes_from(cas, diff.new)
        IN  IF ~old_buffer.ok THEN old_buffer
            ELSE IF ~new_buffer.ok THEN new_buffer
            ELSE BlobPatchFrom(Tail(diffs), cas,
                     Append(result,
                            BlobReplace(diff.old, diff.new,
                                calculate_binary_diff(old_buffer.bytes, new_buffer.bytes))))

\* bincode (default options): integers little-endian at fixed width, an enum
\* as its u32 variant index followed by its fields, a string, a byte buffer
\* and a Vec as a u64 length followed by the elements; usize is a u64.
RECURSIVE LittleEndian(_, _)
LittleEndian(n, width) ==
    IF width = 0 THEN <<>> ELSE <<n % 256>> \o LittleEndian(n \div 256, width - 1)

RECURSIVE FromLittleEndian(_)
FromLittleEndian(bytes) ==
    IF bytes = <<>> THEN 0 ELSE Head(bytes) + 256 * FromLittleEndian(Tail(bytes))

SerU32(n) == LittleEndian(n, 4)
SerU64(n) == LittleEndian(n, 8)
SerBytes(b) == SerU64(Len(b)) \o b

RECURSIVE Concat(_)
Concat(seqs) == IF seqs = <<>> THEN <<>> ELSE Head(seqs) \o Concat(Tail(seqs))

\* Serialize for BytesPatch (variants Add = 0, Delete = 1, Replace = 2)
SerBytesPatch(p) ==
    IF p.tag = "Add"
    THEN SerU32(0) \o SerU64(p.old_index) \o SerU64(p.new_index) \o SerBytes(p.new_value)
    ELSE IF p.tag = "Delete"
    THEN SerU32(1) \o SerU64(p.old_index) \o SerU64(p.new_index) \o SerBytes(p.old_value)
    ELSE SerU32(2) \o SerU64(p.old_index) \o SerU64(p.new_index)
             \o SerBytes(p.old_value) \o SerBytes(p.new_value)

\* bincode::serialize(&BlobPatch)
serialize(p) ==
    IF p.tag = "Add" THEN SerU32(0) \o SerBytes(p.new_file)
    ELSE IF p.tag = "Delete" THEN SerU32(1) \o SerBytes(p.old_file)
    ELSE SerU32(2) \o SerBytes(p.old_file) \o SerBytes(p.new_file)
             \o SerU64(Len(p.patch))
             \o Concat([k \in 1..Len(p.patch) |-> SerBytesPatch(p.patch[k])])

\* The reader side: each De* takes the buffer and an offset and gives the
\* value and the offset after it, or ok = FALSE (end of input, bad variant).
DeFail == [ok |-> FALSE, val |-> <<>>, pos |-> 0]
DeInt(buf, pos, width) ==
    IF pos + width > Len(buf) THEN DeFail
    ELSE [ok |-> TRUE, val |-> FromLittleEndian(SubSeq(buf, pos + 1, pos + width)),
          pos |-> pos + width]

DeBytesOfLen(buf, n) ==
    IF ~n.ok THEN DeFail
    ELSE IF n.pos + n.val > Len(buf) THEN DeFail
    ELSE [ok |-> TRUE, val |-> SubSeq(buf, n.pos + 1, n.pos + n.val), pos |-> n.pos + n.val]

\* a string or a byte buffer: its u64 length, then the bytes
DeBytes(buf, pos) == DeBytesOfLen(buf, DeInt(buf, pos, 8))

\* the fields of each variant, in declaration order
BytesPatchFields(variant) ==
    IF variant = 2 THEN <<"u64", "u64", "bytes", "bytes">> ELSE <<"u64", "u64", "bytes">>
BlobPatchFields(variant) ==
    IF variant = 2 THEN <<"bytes", "bytes", "patch">> ELSE <<"bytes">>

\* the values read so far (acc) with the one just read (got)
DePush(acc, got) ==
    IF ~got.ok THEN DeFail
    ELSE [ok |-> TRUE, val |-> Append(acc.val, got.val), pos |-> got.pos]

DeStart(pos) == [ok |-> TRUE, val |-> <<>>, pos |-> pos]

RECURSIVE DeStruct(_, _, _)

\* Deserialize for BytesPatch
MkBytesPatch(variant, f) ==
    IF ~f.ok THEN DeFail
    ELSE [ok |-> TRUE, pos |-> f.pos,
          val |-> [tag |-> IF variant = 0 THEN "Add"
                           ELSE IF variant = 1 THEN "Delete" ELSE "Replace",
                   old_index |-> f.val[1],
                   new_index |-> f.val[2],
                   old_value |-> IF variant = 0 THEN <<>> ELSE f.val[3],
                   new_value |-> IF variant = 0 THEN f.val[3]
                                 ELSE IF variant = 1 THEN <<>> ELSE f.val[4]]]

DeBytesPatchOf(buf, variant) ==
    IF ~variant.ok THEN DeFail
    ELSE IF variant.val > 2 THEN DeFail
    ELSE MkBytesPatch(variant.val,
                      DeStruct(buf, BytesPatchFields(variant.val), DeStart(variant.pos)))

DeBytesPatch(buf, pos) == DeBytesPatchOf(buf, DeInt(buf, pos, 4))

\* Vec<BytesPatch>: the u64 count, then the elements
RECURSIVE DeSeq(_, _, _)
DeSeq(buf, n, acc) ==
    IF ~acc.ok THEN DeFail
    ELSE IF n = 0 THEN acc
    ELSE DeSeq(buf, n - 1, DePush(acc, DeBytesPatch(buf, acc.pos)))

DeBytesPatches(buf, count) ==
    IF ~count.ok THEN DeFail ELSE DeSeq(buf, count.val, DeStart(count.pos))

DeField(buf, kind, pos) ==
    IF kind = "u64" THEN DeInt(buf, pos, 8)
    ELSE IF kind = "bytes" THEN DeBytes(buf, pos)
    ELSE DeBytesPatches(buf, DeInt(buf, pos, 8))

\* the fields of a variant one after the other
DeStruct(buf, kinds, acc) ==
    IF ~acc.ok THEN DeFail
    ELSE IF kinds = <<>> THEN acc
    ELSE DeStruct(buf, Tail(kinds), DePush(acc, DeField(buf, Head(kinds), acc.pos)))

\* Deserialize for BlobPatch
MkBlobPatch(variant, f) ==
    IF ~f.ok THEN DeFail
    ELSE [ok |-> TRUE, pos |-> f.pos,
          val |-> IF variant = 0 THEN BlobAdd(f.val[1])
                  ELSE IF variant = 1 THEN BlobDelete(f.val[1])
                  ELSE BlobReplace(f.val[1], f.val[2], f.val[3])]

DeBlobPatchOf(buf, variant) ==
    IF ~variant.ok THEN DeFail
    ELSE IF variant.val > 2 THEN DeFail
    ELSE MkBlobPatch(variant.val,
                     DeStruct(buf, BlobPatchFields(variant.val), DeStart(variant.pos)))

DeBlobPatch(buf, pos) == DeBlobPatchOf(buf, DeInt(buf, pos, 4))

\* bincode::deserialize::<BlobPatch>(&buffer): ONE value read from the start
\* of the buffer; the bytes after it are not looked at
DeResult(r) ==
    IF r.ok THEN [ok |-> TRUE, val |-> r.val] ELSE [ok |-> FALSE, err |-> "Serialize"]
deserialize(buffer) == DeResult(DeBlobPatch(buffer, 0))

\* the archive entry that carries the patch list: "ditiear.patch"
PatchEntryName == <<100, 105, 116, 105, 101, 97, 114, 46, 112, 97, 116, 99, 104>>
BakSuffix == <<46, 98, 97, 107>>     \* ".bak"

\* no archive file at the patch path
NoArchive == [present |-> FALSE, entries |-> <<>>]
Archive(entries) == [present |-> TRUE, entries |-> entries]

\* create_zip_patch: nothing is written for an empty list; otherwise the
\* entry "ditiear.patch" holds the encodings of all records one after the
\* other, and one entry per Add record, named by its hash, holds the object
create_zip_patch(diffs, cas) ==
    LET p == BlobPatchFrom(diffs, cas, <<>>)
    IN  IF ~p.ok THEN [ok |-> FALSE, err |-> p.err, patchs |-> <<>>, archive |-> NoArchive]
        ELSE IF p.patchs = <<>>
        THEN [ok |-> TRUE, err |-> "", patchs |-> <<>>, archive |-> NoArchive]
        ELSE
        LET add_patchs == SelectSeq(p.patchs, LAMBDA x : x.tag = "Add")
            objects    == [k \in 1..Len(add_patchs) |->
                             [name |-> add_patchs[k].new_file,
                              data |-> bytes_from(cas, add_patchs[k].new_file)]]
            missing    == {k \in 1..Len(objects) : ~objects[k].data.ok}
            patch_entry == [name |-> PatchEntryName,
                            data |-> Concat([k \in 1..Len(p.patchs) |-> serialize(p.patchs[k])])]
        IN  IF missing # {}
            THEN [ok |-> FALSE, err |-> "Io", patchs |-> p.patchs, archive |-> NoArchive]
            ELSE [ok |-> TRUE, err |-> "", patchs |-> p.patchs,
                  archive |-> Archive(<<patch_entry>> \o
                      [k \in 1..Len(objects) |->
                          [name |-> objects[k].name, data |-> objects[k].data.bytes]])]

\* the shard directories that exist in a CAS directory
Shards(cas) == {ShardOf(path) : path \in DOMAIN cas}

\* The state of apply_patchs: the next archive entry to read (entry), the
\* list unpack_patch has collected (patchs), the next record to apply (j),
\* and ok / err once an error is being returned; hung when
\* replace_parts_file never returns.  fsops lists, in order, the calls that
\* write into the CAS directory: File::create of an archive object
\* ("create"), the open of <old>.bak by replace_parts_file ("rewrite") and
\* fs::rename onto the new object ("rename"), each with its path and whether
\* a file was there already.
ApplyStart ==
    [entry |-> 1, patchs |-> <<>>, j |-> 1, ok |-> TRUE, err |-> "", hung |-> FALSE,
     fsops |-> <<>>]

FsOp(op, cas, path) == [op |-> op, path |-> path, existed |-> Exists(cas, path)]

\* apply_patchs' process_file closure: File::create(path_from_hash(name)) and
\* write_all.  The shard directory is not created; an existing file is
\* truncated and rewritten.
process_file(cas, buffer, name) ==
    IF ShardOf(path_from_hash(name)) \notin Shards(cas)
    THEN [ok |-> FALSE, cas |-> cas]
    ELSE [ok |-> TRUE, cas |-> WriteFile(cas, path_from_hash(name), buffer)]

\* a write through a file opened with write + create and no truncate: the
\* bytes go over the start of what the file held
WriteOver(existing, out) == out \o SubSeq(existing, Len(out) + 1, Len(existing))

\* one iteration of `for patch in patchs` in apply_patchs.  Add and Delete do
\* nothing.  Replace replays the byte patch over the old object into
\* <old>.bak and renames that to the new object's path.
ApplyPatch(cas, a) ==
    LET patch        == a.patchs[a.j]
        next         == [a EXCEPT !.j = @ + 1]
        old_path     == path_from_hash(patch.old_file)
        old_bak_path == path_from_hash(patch.old_file \o BakSuffix)
        new_path     == path_from_hash(patch.new_file)
    IN  IF patch.tag # "Replace" THEN [cas |-> cas, ap |-> next]
        ELSE IF ~Exists(cas, old_path)
        THEN [cas |-> cas, ap |-> [next EXCEPT !.ok = FALSE, !.err = "Io"]]
        ELSE
        LET r       == replace_parts_file(ReplayStart(cas[old_path], Replacements(patch.patch)))
            before  == IF Exists(cas, old_bak_path) THEN cas[old_bak_path] ELSE <<>>
            withBak == WriteFile(cas, old_bak_path, WriteOver(before, r.out))
            opened  == Append(a.fsops, FsOp("rewrite", cas, old_bak_path))
        IN  IF r.phase = "panic"
            THEN [cas |-> WriteFile(cas, old_bak_path, before),
                  ap |-> [next EXCEPT !.ok = FALSE, !.err = "Panic", !.fsops = opened]]
            ELSE IF r.phase # "done"
            THEN [cas |-> withBak, ap |-> [a EXCEPT !.hung = TRUE, !.fsops = opened]]
            ELSE IF ShardOf(new_path) \notin Shards(cas)
            THEN [cas |-> withBak,
                  ap |-> [next EXCEPT !.ok = FALSE, !.err = "Io", !.fsops = opened]]
            ELSE [cas |-> [k \in (DOMAIN withBak \ {old_bak_path}) \cup {new_path} |->
                              IF k = new_path THEN withBak[old_bak_path] ELSE withBak[k]],
                  ap |-> [next EXCEPT !.fsops =
                             Append(opened, FsOp("rename", withBak, new_path))]]

\* unpack_patch as it would be if it applied each record as soon as it has
\* decoded it, instead of collecting the list for apply_patchs
UnpackEntryEager(cas, a, archive) ==
    LET file == archive.entries[a.entry]
        next == [a EXCEPT !.entry = @ + 1]
    IN  IF file.name # PatchEntryName
        THEN LET w == process_file(cas, file.data, file.name)
             IN  IF w.ok
                 THEN [cas |-> w.cas,
                       ap |-> [next EXCEPT !.fsops =
                                  Append(@, FsOp("create", cas, path_from_hash(file.name)))]]
                 ELSE [cas |-> cas, ap |-> [next EXCEPT !.ok = FALSE, !.err = "Io"]]
        ELSE LET patch == deserialize(file.data)
             IN  IF patch.ok
                 THEN ApplyPatch(cas, [next EXCEPT !.patchs = Append(@, patch.val),
                                                   !.j = Len(a.patchs) + 1])
                 ELSE [cas |-> cas, ap |-> [next EXCEPT !.ok = FALSE, !.err = patch.err]]

\* one iteration of `for i in 0..archive.len()` in unpack_patch
UnpackEntry(cas, a, archive) ==
    LET file == archive.entries[a.entry]
        next == [a EXCEPT !.entry = @ + 1]
    IN  IF file.name # PatchEntryName
        THEN LET w == process_file(cas, file.data, file.name)
             IN  IF w.ok
                 THEN [cas |-> w.cas,
                       ap |-> [next EXCEPT !.fsops =
                                  Append(@, FsOp("create", cas, path_from_hash(file.name)))]]
                 ELSE [cas |-> cas, ap |-> [next EXCEPT !.ok = FALSE, !.err = "Io"]]
        ELSE LET patch == deserialize(file.data)
             IN  IF patch.ok
                 THEN [cas |-> cas, ap |-> [next EXCEPT !.patchs = Append(@, patch.val)]]
                 ELSE [cas |-> cas, ap |-> [next EXCEPT !.ok = FALSE, !.err = patch.err]]

(***************************************************************************)
(* Source directories                                                      *)
(***************************************************************************)
NumData == 2
MaxStack == 6

FileEntry(n, d) == [name |-> n, kind |-> "file", data |-> d, sub |-> {}]
DirEntry(n, S) == [name |-> n, kind |-> "dir", data |-> <<>>, sub |-> S]
NoEntry == [name |-> <<>>, kind |-> "none", data |-> <<>>, sub |-> {}]

\* file contents: one byte each
FileDatas == {<<d>> : d \in 1..NumData}

\* every directory that gives each of `names` no entry, a file from datas, or
\* a subdirectory from subs
DirsOver(names, datas, subs) ==
    LET opts(n) == {NoEntry} \cup {FileEntry(n, d) : d \in datas}
                             \cup {DirEntry(n, S) : S \in subs}
        picks   == {f \in [names -> UNION {opts(n) : n \in names}] :
                        \A n \in names : f[n] \in opts(n)}
    IN  {{f[n] : n \in names} \ {NoEntry} : f \in picks}

SnapNames == {<<97>>, <<98>>}
LeafDirs == DirsOver(SnapNames, FileDatas, {})
SnapTrees == DirsOver(SnapNames, FileDatas, LeafDirs)


(***************************************************************************)
(* Codec scenario: format a record, parse the text back                    *)
(***************************************************************************)
MaxNameLen == 2
MaxHashLen == 2

\* every string over alphabet A of length at most n
StringsUpTo(A, n) == UNION {[1..k -> A] : k \in 0..n}

\* entry names: no SP and no LF inside ('a', '0', TAB)
CodecNames == StringsUpTo({97, 48, TAB}, MaxNameLen) \ {<<>>}
\* "any hash string": hex digits and a space
CodecHashes == StringsUpTo({49, 102, SP}, MaxHashLen) \ {<<>>}

CodecInit ==
    /\ pc = "codec"
    /\ rec \in {DiffBlob(n, h, t) :
                    n \in CodecNames, h \in CodecHashes, t \in {"File", "Directory"}}
    /\ line = Nil
    /\ parsed = Nil
    /\ SnapIdle /\ ReplayIdle /\ PatchIdle

\* blob.to_string()
Format ==
    /\ pc = "codec"
    /\ line' = Display(rec)
    /\ pc' = "formatted"
    /\ UNCHANGED <<rec, parsed, notCodec>>

\* DiffBlob::from_str(&s)
Parse ==
    /\ pc = "formatted"
    /\ parsed' = FromStr(line)
    /\ pc' = "parsed"
    /\ UNCHANGED <<rec, line, notCodec>>

CodecNext == Format \/ Parse

SpecCodec == CodecInit /\ [][CodecNext]_vars

(***************************************************************************)
(* Parse scenario: a manifest line that need not come from Display is      *)
(* handed to from_str                                                      *)
(***************************************************************************)
\* "name SP hash SP kind_word", with or without the space before the trailer
ParseBodies ==
    {n \o <<SP>> \o h \o <<SP>> \o KindWord(k) \o sep :
        n \in CodecNames, h \in CodecHashes, k \in {"File", "Directory"},
        sep \in {<<>>, <<SP>>}}

\* six hex digits declaring lengths that need not be the lengths of the body
ParseTrailers ==
    {Hex02(n) \o Hex02(h) \o Hex02(k) :
        n \in 0..MaxNameLen + 1, h \in 0..MaxHashLen + 1,
        k \in {Len(KindFile), Len(KindDirectory), Len(KindDirectory) + 1}}

ParseInit ==
    /\ pc = "formatted"
    /\ rec = Nil
    /\ line \in {b \o tr \o <<LF>> : b \in ParseBodies, tr \in ParseTrailers}
    /\ parsed = Nil
    /\ SnapIdle /\ ReplayIdle /\ PatchIdle

ParseNext == Parse

SpecParse == ParseInit /\ [][ParseNext]_vars

(***************************************************************************)
(* Snapshot scenario: the recursive builder twice on one CAS, then the     *)
(* iterative builder on a CAS of its own                                   *)
(***************************************************************************)
SnapInit ==
    /\ pc = "snap"
    /\ tree \in SnapTrees
    /\ casRec = EmptyCas
    /\ recRes = <<>>
    /\ casIt = EmptyCas
    /\ itState = Nil
    /\ itRes = Nil
    /\ CodecIdle /\ ReplayIdle /\ PatchIdle

\* create_directory_blob_file_rec(casRec, tree), on the empty CAS and again
RunRec ==
    /\ pc = "snap"
    /\ Len(recRes) < 2
    /\ \E r \in create_directory_blob_file_rec(tree, casRec) :
          /\ recRes' = Append(recRes, r)
          /\ casRec' = r.cas
    /\ pc' = IF Len(recRes) = 1 THEN "iter" ELSE "snap"
    /\ itState' = IF Len(recRes) = 1
                  THEN [stack |-> <<[path |-> <<>>, entries |-> <<>>]>>,
                        resolved |-> <<>>, log |-> {}]
                  ELSE itState
    /\ UNCHANGED <<tree, casIt, itRes, notSnap>>

\* create_directory_blob_file(casIt, tree): one pop of entries_stack.
\* The stack grows without limit on some directories; the run is followed
\* while it holds at most MaxStack frames.
IterStep ==
    /\ pc = "iter"
    /\ itState.stack # <<>>
    /\ Len(itState.stack) <= MaxStack
    /\ \E order \in ReadDir(DirAt(tree, itState.stack[Len(itState.stack)].path)) :
          LET n == IterPop(tree, itState, casIt, order)
          IN  /\ itState' = [stack |-> n.stack, resolved |-> n.resolved, log |-> n.log]
              /\ casIt' = n.cas
    /\ UNCHANGED <<pc, tree, casRec, recRes, itRes, notSnap>>

\* create_directory_blob_file: the return after the loop
IterReturn ==
    /\ pc = "iter"
    /\ itState.stack = <<>>
    /\ itRes' = IF <<>> \in DOMAIN itState.resolved
                THEN [ok |-> TRUE, hash |-> itState.resolved[<<>>].hash]
                ELSE [ok |-> FALSE, hash |-> <<>>]
    /\ pc' = "snapped"
    /\ UNCHANGED <<tree, casRec, recRes, casIt, itState, notSnap>>

SnapNext == RunRec \/ IterStep \/ IterReturn

SpecSnap == SnapInit /\ [][SnapNext]_vars

(***************************************************************************)
(* Replay scenario: byte_diff(A, B) replayed over A                        *)
(***************************************************************************)
MaxCore == 3

\* A and B share a run of zero bytes (shorter than, as long as, longer than
\* the copy buffer) followed by up to MaxCore bytes each
ReplayPrefixes == {0, BufSize - 1, BufSize, BufSize + 1}
ReplayCores == StringsUpTo({1, 2}, MaxCore)
Zeros(n) == [i \in 1..n |-> 0]

ReplayInit ==
    /\ pc = "replay"
    /\ \E n \in ReplayPrefixes, ca \in ReplayCores, cb \in ReplayCores :
          /\ bytesA = Zeros(n) \o ca
          /\ bytesB = Zeros(n) \o cb
    /\ rp = Nil
    /\ CodecIdle /\ SnapIdle /\ PatchIdle

\* the Replace arm of apply_patchs up to the opening of the files
ReplayOpen ==
    /\ pc = "replay"
    /\ rp' = ReplayStart(bytesA, Replacements(calculate_binary_diff(bytesA, bytesB)))
    /\ pc' = "replaying"
    /\ UNCHANGED <<bytesA, bytesB, notReplay>>

\* copy_with_buffer: one read and write
ReplayCopy ==
    /\ pc = "replaying"
    /\ rp.phase = "copy" /\ rp.bytes > 0
    /\ rp' = copy_with_buffer_step(rp)
    /\ UNCHANGED <<pc, bytesA, bytesB, notReplay>>

\* the rest of the loop body of replace_parts_file
ReplayReplace ==
    /\ pc = "replaying"
    /\ rp.phase = "copy" /\ rp.bytes = 0
    /\ rp' = AfterCopy(rp)
    /\ UNCHANGED <<pc, bytesA, bytesB, notReplay>>

\* io::copy of the tail, flush
ReplayTail ==
    /\ pc = "replaying"
    /\ rp.phase = "tail"
    /\ rp' = CopyTail(rp)
    /\ UNCHANGED <<pc, bytesA, bytesB, notReplay>>

ReplayNext == ReplayOpen \/ ReplayCopy \/ ReplayReplace \/ ReplayTail

SpecReplay == ReplayInit /\ [][ReplayNext]_vars

(***************************************************************************)
(* Patch scenario: snapshot two directories, diff the snapshots, pack the  *)
(* patch, apply it to a CAS that holds the old snapshot                    *)
(***************************************************************************)
\* "hash_rs": the manifests are written by the snapshot builder of hash.rs.
\* "common_rs": the manifests are in the codec of common.rs, as in the CAS
\* directory the repository's tests read (tests/assets_blobs2).
Writers == {"hash_rs", "common_rs"}

PatchSubDirs == DirsOver({<<97>>}, FileDatas, {})
PatchTrees == DirsOver(SnapNames, FileDatas, PatchSubDirs)

PatchInit ==
    /\ pc = "trees"
    /\ writer \in Writers
    /\ dOld \in PatchTrees
    /\ dNew \in PatchTrees
    /\ casSrc = Nil /\ casDst = Nil /\ snap = Nil
    /\ df = Nil /\ diffOut = Nil /\ packed = Nil /\ ap = Nil
    /\ CodecIdle /\ SnapIdle /\ ReplayIdle

\* snapshot(dOld) into an empty CAS: that is the CAS the patch will be
\* applied to; snapshot(dNew) on top of it: that is the CAS the patch is
\* made from.  compare_blob_files starts on the two roots.
Snapshot ==
    /\ pc = "trees"
    /\ \E ro \in RecBuilds(writer, dOld, EmptyCas, {}) :
       \E rn \in RecBuilds(writer, dNew, ro.cas, {}) :
          /\ casDst' = ro.cas
          /\ casSrc' = rn.cas
          /\ snap' = [old |-> ro.hash, new |-> rn.hash, manifests |-> rn.log]
          /\ df' = DiffStart(ro.hash, rn.hash)
    /\ pc' = "diff"
    /\ UNCHANGED <<writer, dOld, dNew, diffOut, packed, ap, notPatch>>

\* compare_blob_files: one pair off the queue
DiffStep ==
    /\ pc = "diff"
    /\ df.queue # <<>>
    /\ \E o \in PairOrders(casSrc, df) :
          LET st == ComparePair(casSrc, df, o[1], o[2])
          IN  /\ st.ok
              /\ df' = st
    /\ UNCHANGED <<pc, writer, dOld, dNew, casSrc, casDst, snap, diffOut, packed, ap, notPatch>>

\* compare_blob_files returns an error
DiffError ==
    /\ pc = "diff"
    /\ df.queue # <<>>
    /\ \E o \in PairOrders(casSrc, df) :
          LET st == ComparePair(casSrc, df, o[1], o[2])
          IN  /\ ~st.ok
              /\ df' = st
    /\ pc' = "failed"
    /\ UNCHANGED <<writer, dOld, dNew, casSrc, casDst, snap, diffOut, packed, ap, notPatch>>

\* compare_blob_files returns the filtered list
DiffReturn ==
    /\ pc = "diff"
    /\ df.queue = <<>>
    /\ diffOut' = FilterInvalid(df)
    /\ pc' = "pack"
    /\ UNCHANGED <<writer, dOld, dNew, casSrc, casDst, snap, df, packed, ap, notPatch>>

\* create_zip_patch(diffOut, casSrc, archive path)
Pack ==
    /\ pc = "pack"
    /\ packed' = create_zip_patch(diffOut, casSrc)
    /\ ap' = ApplyStart
    /\ pc' = IF packed'.ok THEN "unpack" ELSE "failed"
    /\ UNCHANGED <<writer, dOld, dNew, casSrc, casDst, snap, df, diffOut, notPatch>>

\* apply_patchs: File::open(patch_path) finds no archive
OpenFails ==
    /\ pc = "unpack"
    /\ ~packed.archive.present
    /\ ap' = [ap EXCEPT !.ok = FALSE, !.err = "Io"]
    /\ pc' = "failed"
    /\ UNCHANGED <<writer, dOld, dNew, casSrc, casDst, snap, df, diffOut, packed, notPatch>>

\* unpack_patch: one archive entry
Unpack ==
    /\ pc = "unpack"
    /\ packed.archive.present
    /\ ap.entry <= Len(packed.archive.entries)
    /\ LET n == UnpackEntry(casDst, ap, packed.archive)
       IN  /\ casDst' = n.cas
           /\ ap' = n.ap
           /\ pc' = IF n.ap.ok THEN "unpack" ELSE "failed"
    /\ UNCHANGED <<writer, dOld, dNew, casSrc, snap, df, diffOut, packed, notPatch>>

\* apply_patchs: one record of the unpacked list
Apply ==
    /\ pc = "unpack"
    /\ packed.archive.present
    /\ ap.entry > Len(packed.archive.entries)
    /\ ap.j <= Len(ap.patchs)
    /\ LET n == ApplyPatch(casDst, ap)
       IN  /\ casDst' = n.cas
           /\ ap' = n.ap
           /\ pc' = IF n.ap.hung THEN "hung" ELSE IF n.ap.ok THEN "unpack" ELSE "failed"
    /\ UNCHANGED <<writer, dOld, dNew, casSrc, snap, df, diffOut, packed, notPatch>>

\* apply_patchs returns Ok(())
ApplyReturn ==
    /\ pc = "unpack"
    /\ packed.archive.present
    /\ ap.entry > Len(packed.archive.entries)
    /\ ap.j > Len(ap.patchs)
    /\ pc' = "done"
    /\ UNCHANGED <<writer, dOld, dNew, casSrc, casDst, snap, df, diffOut, packed, ap, notPatch>>

PatchNext ==
    \/ Snapshot \/ DiffStep \/ DiffError \/ DiffReturn
    \/ Pack \/ OpenFails \/ Unpack \/ Apply \/ ApplyReturn

SpecPatch == PatchInit /\ [][PatchNext]_vars

(***************************************************************************)
(* Apply scenario: apply_patchs on an archive that need not come from      *)
(* create_zip_patch, against a CAS that holds a snapshot                   *)
(***************************************************************************)
MaxEntries == 2

\* the CAS directories the archive is applied to: a snapshot of a directory
\* of files
ApplyCases ==
    UNION {{r.cas : r \in RecBuilds("common_rs", d, EmptyCas, {})} : d \in LeafDirs}

\* archive entries: an object named by its hash, or a ditiear.patch entry
\* holding one encoded record
BlobEntries == {[name |-> calculate_file_hash(d), data |-> d] : d \in FileDatas}
ApplyRecords ==
    {BlobAdd(calculate_file_hash(d)) : d \in FileDatas}
        \cup {BlobDelete(calculate_file_hash(d)) : d \in FileDatas}
        \cup {BlobReplace(calculate_file_hash(o), calculate_file_hash(n),
                          calculate_binary_diff(o, n)) :
                  o \in FileDatas, n \in FileDatas}
PatchEntries == {[name |-> PatchEntryName, data |-> serialize(r)] : r \in ApplyRecords}
ApplyArchives ==
    {NoArchive} \cup
    {Archive(s) : s \in UNION {[1..n -> BlobEntries \cup PatchEntries] : n \in 0..MaxEntries}}

ApplyInit ==
    /\ pc = "unpack"
    /\ writer = "common_rs"
    /\ dOld = Nil /\ dNew = Nil /\ casSrc = Nil
    /\ casDst \in ApplyCases
    /\ snap = Nil /\ df = Nil /\ diffOut = Nil
    /\ packed \in {[ok |-> TRUE, err |-> "", patchs |-> <<>>, archive |-> A] :
                       A \in ApplyArchives}
    /\ ap = ApplyStart
    /\ CodecIdle /\ SnapIdle /\ ReplayIdle

ApplyNext == OpenFails \/ Unpack \/ Apply \/ ApplyReturn

SpecApply == ApplyInit /\ [][ApplyNext]_vars

(***************************************************************************)
(* The claims                                                              *)
(***************************************************************************)
\* C10: BlobRecord codec round trip: for every well-formed record (name without
\* SP or LF, shorter than 256 bytes, any hash, kind File or Directory) the text
\* Display writes parses back to the same record, and the text ends with six hex
\* digits giving len(name), len(hash), len(kind_word), then LF.
C10_CodecRoundTrip ==
    pc = "parsed" =>
        /\ parsed.ok
        /\ parsed.blob = rec
        /\ Slice(line, Len(line) - 7, Len(line)) =
              Hex02(Len(rec.name)) \o Hex02(Len(rec.hash))
                  \o Hex02(Len(KindWord(rec.blob_type))) \o <<LF>>
        /\ Len(line) = Len(rec.name) + Len(rec.hash) + Len(KindWord(rec.blob_type)) + 10

\* every file content below a directory
RECURSIVE FilesBelow(_)
FilesBelow(dir) ==
    {e.data : e \in {x \in dir : x.kind = "file"}}
        \cup UNION {FilesBelow(e.sub) : e \in {x \in dir : x.kind = "dir"}}

\* every manifest the builders handed to the hasher so far
ManifestsLogged ==
    UNION {recRes[i].log : i \in 1..Len(recRes)}
        \cup (IF itState = Nil THEN {} ELSE itState.log)

\* The digest model does not collide on the contents of the scenario: every
\* object of the recursive builder's CAS holds the content it was hashed from.
SnapNoCollision ==
    Len(recRes) >= 1 =>
        /\ \A m \in recRes[1].log :
              recRes[1].cas[path_from_hash(m.hash)] = ManifestText("hash_rs", m.blobs)
        /\ \A d \in FilesBelow(tree) :
              recRes[1].cas[path_from_hash(calculate_file_hash(d))] = d

\* C6: manifest sort invariant: every manifest either snapshot builder writes
\* lists its records in ascending byte-wise order of name.
C6_ManifestSortedByName ==
    \A m \in ManifestsLogged :
        \A i, j \in 1..Len(m.blobs) :
            i < j => StrLess(m.blobs[i].name, m.blobs[j].name)

\* C7: enumeration-order independence: the root hash of snapshot(D) is the
\* same whatever order read_dir enumerates each directory in (here: the two
\* runs of the recursive builder on one source directory agree).
C7_OrderIndependent ==
    Len(recRes) = 2 => recRes[2].hash = recRes[1].hash

\* C8: builder equivalence: on every source directory the iterative builder
\* succeeds and returns the recursive builder's root hash, and the two write
\* the same manifests (the same objects into an empty CAS).
C8_BuildersAgree ==
    pc = "snapped" =>
        /\ itRes.ok
        /\ itRes.hash = recRes[1].hash
        /\ casIt = recRes[1].cas

\* C9: snapshot-to-differ format agreement: every line of every manifest a
\* builder writes has the BlobRecord form with the LLHHTT trailer, so the
\* differ's loader (FromStr on each line) returns the record the builder wrote.
C9_ManifestLinesParse ==
    Len(recRes) >= 1 =>
        \A m \in recRes[1].log :
            LET lines == Lines(recRes[1].cas[path_from_hash(m.hash)])
            IN  /\ Len(lines) = Len(m.blobs)
                /\ \A i \in 1..Len(lines) :
                      /\ FromStr(lines[i]).ok
                      /\ FromStr(lines[i]).blob = m.blobs[i]

\* C2: byte-patch round trip: for all byte sequences A and B, whatever the
\* length of the unchanged span before an edit, replaying byte_diff(A, B)
\* (replacements sorted by old_index) over A writes exactly B.
C2_ReplayWritesB ==
    (pc = "replaying" /\ rp.phase = "done") => rp.out = bytesB

\* the paths (sequences of names) at which a directory holds a file with the
\* given content
RECURSIVE PathsOf(_, _)
PathsOf(dir, data) ==
    {<<e.name>> : e \in {x \in dir : x.kind = "file" /\ x.data = data}}
        \cup UNION {{<<e.name>> \o p : p \in PathsOf(e.sub, data)} :
                       e \in {x \in dir : x.kind = "dir"}}

\* C5: Add/Delete cancellation: a file content B that is at exactly one path
\* of the old directory and at exactly one path of the new one gives neither
\* Add{File, hash(B)} nor Delete{File, hash(B)} in the list diff returns, also
\* when the new path held a file with different content before.
C5_MoveCancelled ==
    diffOut # Nil =>
        \A B \in FileDatas :
            (Cardinality(PathsOf(dOld, B)) = 1 /\ Cardinality(PathsOf(dNew, B)) = 1) =>
                \A k \in 1..Len(diffOut) :
                    ~ /\ diffOut[k].op \in {"Add", "Delete"}
                      /\ diffOut[k].type = "File"
                      /\ diffOut[k].value = calculate_file_hash(B)

\* C4: change-list codec round trip: the list unpack_patch collects from the
\* archive create_zip_patch wrote for a non-empty list is that list, every
\* record and in order.
C4_UnpackReturnsList ==
    (/\ ap # Nil /\ ap.ok /\ packed.archive.present
     /\ ap.entry > Len(packed.archive.entries)) =>
        ap.patchs = packed.patchs

\* C3: when apply_patchs returns Ok, every new_file of an Add or a Replace
\* record of the list that was packed into the archive is an object of the CAS
\* the archive was applied to.
C3_NewFilesExist ==
    pc = "done" =>
        \A k \in 1..Len(packed.patchs) :
            packed.patchs[k].tag \in {"Add", "Replace"} =>
                Exists(casDst, path_from_hash(packed.patchs[k].new_file))

\* the blobs reachable from the new root, with the content a snapshot of the
\* new directory gives them
NewBlobs ==
    {[hash |-> m.hash, data |-> ManifestText(writer, m.blobs)] : m \in snap.manifests}
        \cup {[hash |-> calculate_file_hash(d), data |-> d] : d \in FilesBelow(dNew)}

\* C1: end-to-end patch correctness: after snapshot, diff, pack and an apply
\* that returned Ok on the CAS holding the old snapshot, every blob reachable
\* from the new root is in that CAS with the content the snapshot of the new
\* directory gives it.
C1_ApplyYieldsNewSnapshot ==
    pc = "done" =>
        \A blob \in NewBlobs :
            /\ Exists(casDst, path_from_hash(blob.hash))
            /\ casDst[path_from_hash(blob.hash)] = blob.data

\* C11: diff identity: for a root hash H that is in the CAS, diff(H, H, C)
\* returns (Ok) the empty change list: no Modify, Add or Delete record.
C11_DiffIdentity ==
    (snap # Nil /\ snap.old = snap.new /\ pc \notin {"trees", "diff"}) =>
        /\ df.ok
        /\ diffOut = <<>>

\* a directory whose recursive content has no entry other than .DS_Store files
RECURSIVE IsEmptyDir(_)
IsEmptyDir(dir) ==
    \A e \in dir : \/ e.name = DSStore
                   \/ e.kind = "dir" /\ IsEmptyDir(e.sub)

\* C12: empty-directory elision: a directory whose recursive content has no
\* entries other than .DS_Store files gets no manifest in the CAS (no manifest
\* without records is written) and no record in its parent's manifest.
C12_EmptyDirElided ==
    Len(recRes) >= 1 =>
        /\ \A m \in recRes[1].log : m.blobs # <<>>
        /\ \A m \in recRes[1].log :
              m.hash = recRes[1].hash =>
                  \A i \in 1..Len(m.blobs) :
                      ~ \E e \in tree : /\ e.kind = "dir"
                                        /\ IsEmptyDir(e.sub)
                                        /\ m.blobs[i].name = e.name
                                        /\ m.blobs[i].blob_type = "Directory"

\* C13: no overwrite of existing objects: a write into the CAS onto a path
\* where an object already exists is a no-op.  The snapshot puts are
\* PutIfAbsent, which writes nothing then; for apply_patchs: no File::create
\* of an archive object and no fs::rename of a Replace is performed onto a
\* path that holds a file.
C13_NoOverwrite ==
    ap # Nil =>
        \A k \in 1..Len(ap.fsops) :
            ap.fsops[k].op \in {"create", "rename"} => ~ap.fsops[k].existed

\* C17: a missing change list is an error: apply_patchs does not return Ok
\* for an archive that has no entry named ditiear.patch.
C17_MissingListFails ==
    pc = "done" =>
        \E k \in 1..Len(packed.archive.entries) :
            packed.archive.entries[k].name = PatchEntryName

\* C14: snapshot idempotence: a second snapshot of the unchanged directory
\* against the same CAS returns the root hash of the first and leaves the CAS
\* with the objects and contents it had after the first.
C14_SnapshotIdempotent ==
    Len(recRes) = 2 =>
        /\ recRes[2].hash = recRes[1].hash
        /\ recRes[2].cas = recRes[1].cas

\* C15: hash width: every digest is rendered with all its hex digits (16 for
\* the 64 bits of XxHash64, DigestBits \div 4 here), leading zeros included,
\* so every root hash has that length and every CAS object lies at one hex
\* character of shard directory plus the remaining digits of file name.
C15_HashWidth ==
    \A i \in 1..Len(recRes) :
        /\ Len(recRes[i].hash) = DigestBits \div 4
        /\ \A path \in DOMAIN recRes[i].cas :
              /\ Len(ShardOf(path)) = 1
              /\ Len(path) = DigestBits \div 4

\* a line without its trailing whitespace
TrimEnd(s) ==
    LET keep == {i \in 1..Len(s) : ~IsWhitespace(s[i])}
    IN  IF keep = {} THEN <<>>
        ELSE SubSeq(s, 1, CHOOSE x \in keep : \A y \in keep : y <= x)

\* the three lengths the six-hex trailer of a line declares (-1: not hex)
DeclaredLengths(s) ==
    [k \in 1..3 |-> FromStrRadix16(Slice(TrimEnd(s), Len(TrimEnd(s)) - 8 + 2 * k,
                                         Len(TrimEnd(s)) - 6 + 2 * k))]

\* the trailer parses and the lengths it declares, plus the three separator
\* spaces, exceed the characters before the trailer
OverLong(s) ==
    /\ Len(TrimEnd(s)) >= 6
    /\ \A k \in 1..3 : DeclaredLengths(s)[k] >= 0
    /\ DeclaredLengths(s)[1] + DeclaredLengths(s)[2] + DeclaredLengths(s)[3] + 3
          > Len(TrimEnd(s)) - 6

\* C16: parse error for over-long declared lengths: for a line whose trailer
\* parses but declares more than the characters before the trailer hold,
\* from_str returns InvalidTotalLength: it neither panics nor returns a record.
C16_OverLongIsTotalLength ==
    (pc = "parsed" /\ OverLong(line)) => parsed = ParseErr("InvalidTotalLength")

\* C18: apply ordering: within one apply_patchs, every write of an archive
\* object into the CAS comes before the first Replace rewrite begins: no
\* rewrite (the open of <old>.bak, the rename) is followed by such a write.
C18_AddsBeforeReplaces ==
    ap # Nil =>
        \A i, j \in 1..Len(ap.fsops) :
            (i < j /\ ap.fsops[i].op \in {"rewrite", "rename"}) =>
                ap.fsops[j].op # "create"

\* an archive that lists the change list before an object: apply_patchs
\* returned Ok, having written the object first and rewritten afterwards
C18_Witness ==
    /\ pc = "done"
    /\ Len(packed.archive.entries) = 2
    /\ packed.archive.entries[1].name = PatchEntryName
    /\ packed.archive.entries[2].name # PatchEntryName
    /\ Len(ap.fsops) = 3
    /\ ap.fsops[1].op = "create"
    /\ ap.fsops[2].op = "rewrite"
    /\ ap.fsops[3].op = "rename"

\* the directory pairs compare_blob_files queues for a pair of manifests: the
\* directories of the same name in both whose hashes differ
DirPairsOf(lo, ln) ==
    {[old |-> lo.map[k].hash, new |-> ln.map[k].hash] :
        k \in {x \in DOMAIN lo.map \cap DOMAIN ln.map :
                  lo.map[x].blob_type = "Directory" /\ lo.map[x].hash # ln.map[x].hash}}

\* the records for the file entries of a pair of manifests
EntryRecords(lo, ln) ==
    {ModifyItem("File", lo.map[k].hash, ln.map[k].hash) :
        k \in {x \in DOMAIN lo.map \cap DOMAIN ln.map :
                  lo.map[x].blob_type = "File" /\ lo.map[x].hash # ln.map[x].hash}}
    \cup {DeleteItem("File", lo.map[k].hash) :
        k \in {x \in DOMAIN lo.map \ DOMAIN ln.map : lo.map[x].blob_type = "File"}}
    \cup {AddItem("File", ln.map[k].hash) :
        k \in {x \in DOMAIN ln.map \ DOMAIN lo.map : ln.map[x].blob_type = "File"}}

Positions(list, r) == {k \in 1..Len(list) : list[k] = r}

\* r, where the list has it, has an occurrence after the first of parent
FollowsIn(list, parent, r) ==
    Positions(list, r) = {} \/
        /\ Positions(list, parent) # {}
        /\ \E k \in Positions(list, r) : k > MinOf(Positions(list, parent))

\* the lists diff returned for two different roots
DiffReturned ==
    /\ df # Nil /\ df.ok
    /\ pc \notin {"trees", "diff"}
    /\ snap.old # snap.new

\* C19: diff output ordering: the Modify{Directory} record of a directory pair
\* comes before the Modify{Directory} records of the pairs below it, and the
\* Modify{File}, Add and Delete records for the entries of a pair come after
\* that pair's Modify{Directory} record.  (The trees are two levels deep: the
\* root pair's record precedes every other record, and the records for the
\* entries of a subdirectory pair follow that pair's record.)
C19_ParentBeforeChildren ==
    DiffReturned =>
        /\ \A k \in 1..Len(diffOut) :
              diffOut[k] # ModifyItem("Directory", snap.old, snap.new) =>
                  FollowsIn(diffOut, ModifyItem("Directory", snap.old, snap.new),
                            diffOut[k])
        /\ \A sp \in DirPairsOf(LoadManifest(casSrc, snap.old),
                                LoadManifest(casSrc, snap.new)) :
              /\ FollowsIn(diffOut, ModifyItem("Directory", snap.old, snap.new),
                           ModifyItem("Directory", sp.old, sp.new))
              /\ \A r \in EntryRecords(LoadManifest(casSrc, sp.old),
                                       LoadManifest(casSrc, sp.new)) :
                    FollowsIn(diffOut, ModifyItem("Directory", sp.old, sp.new), r)

\* a subdirectory whose file changed: the list holds the root pair's record,
\* the subdirectory pair's record and the file's record
C19_Witness ==
    /\ DiffReturned
    /\ pc = "pack"
    /\ Len(diffOut) >= 3
    /\ \E sp \in DirPairsOf(LoadManifest(casSrc, snap.old),
                            LoadManifest(casSrc, snap.new)) :
          /\ Positions(diffOut, ModifyItem("Directory", sp.old, sp.new)) # {}
          /\ \E r \in EntryRecords(LoadManifest(casSrc, sp.old),
                                   LoadManifest(casSrc, sp.new)) :
                Positions(diffOut, r) # {}

\* C20: new manifests are delivered as Add blobs: for every directory manifest
\* reachable from the new root and not from the old one (the new root and
\* the changed directories included) the list diff returns holds
\* Add{Directory, hash}.  (When diff returns, the CAS the patch will be applied
\* to holds exactly the objects reachable from the old root.)
C20_NewManifestsAdded ==
    (DiffReturned /\ pc = "pack") =>
        \A m \in snap.manifests :
            ~Exists(casDst, path_from_hash(m.hash)) =>
                Positions(diffOut, AddItem("Directory", m.hash)) # {}

\* C21: replay termination: while replace_parts_file replays the byte patch
\* byte_diff(A, B) over A, every read of copy_with_buffer that is made with
\* bytes still to copy returns at least one byte, so the loop
\* `while bytes > 0` reaches bytes == 0 and never spins on a reader that is
\* already at the end of the file, whatever the length of the span to copy
\* is relative to the copy buffer.
C21_ReplayTerminates ==
    (pc = "replaying" /\ rp.phase = "copy" /\ rp.bytes > 0) => ReadLen(rp) > 0

====
